---- MODULE Spec2Model ----
(***************************************************************************)
(* FlowProcess (pkg/nuclide/flow-base/lib/FlowProcess.js): the supervisor  *)
(* of one Flow server per project root.  The model follows the class at    *)
(* the granularity of its suspension points: every `await` of execFlow,    *)
(* _rawExecFlow and _startFlowServer separates two actions, and everything *)
(* the code does synchronously between two awaits is one action.           *)
(***************************************************************************)
EXTENDS Integers, FiniteSets, Sequences, TLC

(* ------------------------------ bounds -------------------------------- *)
\* concurrent execFlow calls on the one supervisor
MaxCalls == 2
\* server subprocesses the supervisor may spawn in one run
MaxServers == 2
\* dispose() calls in one run
MaxDisposes == 2

(* ------------------------- program constants -------------------------- *)
\* execFlow: const maxTries = 5
maxTries == 5
\* FLOW_RETURN_CODES
ok == 0
serverInitializing == 1
typeError == 2
noServerRunning == 6
outOfRetries == 7
buildIdMismatch == 9
\* the exit handler of _startFlowServer: code === 2
crashCode == 2

Calls == 1..MaxCalls
Servers == 1..MaxServers

\* no exit code (a call that has no failure at hand; a process ended by a signal)
NoCode == 0 - 1
\* no server handle (this._startedServer is undefined)
NoServer == 0

\* The exit codes a flow client process may end with: the six of
\* FLOW_RETURN_CODES and 3, standing for every code outside the table.
ExitCodes == {ok, serverInitializing, typeError, 3, noServerRunning, outOfRetries, buildIdMismatch}

\* The (code, signal) of the 'exit' event of a server process that ended by
\* itself or by an operator: the crash pattern (code 2, no signal), another
\* code, or a signal with a null code; and that of a process dispose() killed.
ServerExits == {<<crashCode, "none">>, <<1, "none">>, <<NoCode, "SIGTERM">>}
KilledExit == <<NoCode, "SIGKILL">>
\* no 'exit' event
NoExit == <<NoCode, "none">>

Statuses == {"unknown", "not running", "init", "busy", "ready", "failed", "not installed"}

VARIABLES
    serverStatus,   \* the value held by the BehaviorSubject this._serverStatus
    isStopped,      \* the subject has completed (onCompleted was called)
    notified,       \* the value the latest step delivered to the subject's observers, or "none"
    lastExit,       \* the (code, signal) the latest step's exit handler was called with, or NoExit
    startedServer,  \* this._startedServer: a server id, or NoServer
    servers,        \* the state of each server process _startFlowServer spawns
    sigkills,       \* SIGKILLs sent through the handle this._startedServer holds
    calls,          \* the execFlow calls, each at its position in the code
    disposes        \* number of dispose() calls so far

vars == <<serverStatus, isStopped, notified, lastExit, startedServer, servers, sigkills, calls, disposes>>

IdleCall == [pc |-> "idle", i |-> 0, raws |-> 0, code |-> NoCode, outcome |-> "none"]

(* --------------------- rx BehaviorSubject (status) --------------------- *)
\* _updateServerStatus's switch over result.exitCode
\* (ClassifyDropsFallThrough: the switch with `case ok` not falling through)
ClassifyDropsFallThrough(code) ==
    CASE code = ok -> "unknown"
      [] code = typeError -> "ready"
      [] code = serverInitializing -> "init"
      [] code = noServerRunning -> "not running"
      [] code = outOfRetries -> "busy"
      [] code = buildIdMismatch -> "not running"
      [] OTHER -> "unknown"

Classify(code) ==
    CASE code = ok -> "ready"
      [] code = typeError -> "ready"
      [] code = serverInitializing -> "init"
      [] code = noServerRunning -> "not running"
      [] code = outOfRetries -> "busy"
      [] code = buildIdMismatch -> "not running"
      [] OTHER -> "unknown"

\* subject.onNext(v): nothing once the subject has stopped; otherwise the value
\* is stored and delivered to every observer.  The constructor's observer
\* (filter x === 'not running') calls _startFlowServer on 'not running'.
\* The result: the value held, the value delivered, and whether
\* _startFlowServer is called.
\* (OnNextUnfiltered: the constructor's observer without its filter.)
OnNextUnfiltered(stopped, cur, v) ==
    IF stopped
    THEN [value |-> cur, delivered |-> "none", start |-> FALSE]
    ELSE [value |-> v, delivered |-> v, start |-> TRUE]

OnNext(stopped, cur, v) ==
    IF stopped
    THEN [value |-> cur, delivered |-> "none", start |-> FALSE]
    ELSE [value |-> v, delivered |-> v, start |-> (v = "not running")]

\* _updateServerStatus(result): 'not installed' for a null result (NoCode),
\* the table's status otherwise; onNext only if the status differs from the
\* current value.
\* (UpdateServerStatusAlways: onNext without the comparison.)
UpdateServerStatusAlways(code) ==
    OnNext(isStopped, serverStatus, IF code = NoCode THEN "not installed" ELSE Classify(code))

UpdateServerStatus(code) ==
    LET status == IF code = NoCode THEN "not installed" ELSE Classify(code)
    IN  IF status # serverStatus
        THEN OnNext(isStopped, serverStatus, status)
        ELSE [value |-> serverStatus, delivered |-> "none", start |-> FALSE]

(* --------------------------- _startFlowServer -------------------------- *)
UnbornServers == {s \in Servers : servers[s] = "unborn"}
FreeServer == CHOOSE s \in UnbornServers : \A t \in UnbornServers : s <= t

\* _startFlowServer up to its await: safeSpawn is called and is in flight.
\* The model has MaxServers processes: a step that would call
\* _startFlowServer with none left is not taken.
StartFlowServer(start) ==
    IF start
    THEN /\ UnbornServers # {}
         /\ servers' = [servers EXCEPT ![FreeServer] = "spawning"]
    ELSE servers' = servers

\* _startFlowServer after its await: the exit handler is registered and the
\* handle stored.
SpawnResolve(s) ==
    /\ servers[s] = "spawning"
    /\ servers' = [servers EXCEPT ![s] = "running"]
    /\ startedServer' = s
    /\ sigkills' = 0
    /\ notified' = "none"
    /\ lastExit' = NoExit
    /\ UNCHANGED <<serverStatus, isStopped, calls, disposes>>

\* The server process ends by itself or by an operator (a crash, another exit
\* code, a signal); its 'exit' event is not yet dispatched.
ServerDies(s) ==
    /\ servers[s] = "running"
    /\ servers' = [servers EXCEPT ![s] = "exited"]
    /\ notified' = "none"
    /\ lastExit' = NoExit
    /\ UNCHANGED <<serverStatus, isStopped, startedServer, sigkills, calls, disposes>>

\* serverProcess.on('exit', (code, signal) => ...), called with exit = (code,
\* signal): 'failed' and completion for code 2 without a signal.
\* (ExitEventKeepsChannel: the handler without its onCompleted();
\* DisposeKeepsChannel below: dispose() without its onCompleted().)
ExitEventKeepsChannel(s, exit) ==
    /\ \/ servers[s] = "exited" /\ exit \in ServerExits
       \/ servers[s] = "killed" /\ exit = KilledExit
    /\ servers' = [servers EXCEPT ![s] = "reaped"]
    /\ lastExit' = exit
    /\ IF exit[1] = crashCode /\ exit[2] = "none"
       THEN LET r == OnNext(isStopped, serverStatus, "failed")
            IN  /\ serverStatus' = r.value
                /\ notified' = r.delivered
       ELSE /\ notified' = "none"
            /\ UNCHANGED serverStatus
    /\ UNCHANGED <<isStopped, startedServer, sigkills, calls, disposes>>

\* (ExitEventAnyCode: the handler testing only `signal === null`.)
ExitEventAnyCode(s, exit) ==
    /\ \/ servers[s] = "exited" /\ exit \in ServerExits
       \/ servers[s] = "killed" /\ exit = KilledExit
    /\ servers' = [servers EXCEPT ![s] = "reaped"]
    /\ lastExit' = exit
    /\ IF exit[2] = "none"
       THEN LET r == OnNext(isStopped, serverStatus, "failed")
            IN  /\ serverStatus' = r.value
                /\ notified' = r.delivered
                /\ isStopped' = TRUE
       ELSE /\ notified' = "none"
            /\ UNCHANGED <<serverStatus, isStopped>>
    /\ UNCHANGED <<startedServer, sigkills, calls, disposes>>

ExitEvent(s, exit) ==
    /\ \/ servers[s] = "exited" /\ exit \in ServerExits
       \/ servers[s] = "killed" /\ exit = KilledExit
    /\ servers' = [servers EXCEPT ![s] = "reaped"]
    /\ lastExit' = exit
    /\ IF exit[1] = crashCode /\ exit[2] = "none"
       THEN LET r == OnNext(isStopped, serverStatus, "failed")
            IN  /\ serverStatus' = r.value
                /\ notified' = r.delivered
                /\ isStopped' = TRUE
       ELSE /\ notified' = "none"
            /\ UNCHANGED <<serverStatus, isStopped>>
    /\ UNCHANGED <<startedServer, sigkills, calls, disposes>>

(* -------------------------------- dispose ------------------------------ *)
\* child.kill('SIGKILL') through the handle: the signal is sent as long as the
\* handle is open, that is until the 'exit' event has been dispatched.  A
\* running process dies of it; one that has already ended keeps its exit.
HandleOpen(s) == servers[s] \in {"running", "exited", "killed"}

Kill(s) ==
    IF servers[s] = "running" THEN [servers EXCEPT ![s] = "killed"] ELSE servers

DisposeKeepsChannel ==
    /\ disposes < MaxDisposes
    /\ disposes' = disposes + 1
    /\ IF startedServer # NoServer
       THEN /\ servers' = Kill(startedServer)
            /\ sigkills' = IF HandleOpen(startedServer) THEN sigkills + 1 ELSE sigkills
       ELSE UNCHANGED <<servers, sigkills>>
    /\ notified' = "none"
    /\ lastExit' = NoExit
    /\ UNCHANGED <<serverStatus, isStopped, startedServer, calls>>

Dispose ==
    /\ disposes < MaxDisposes
    /\ disposes' = disposes + 1
    /\ isStopped' = TRUE
    /\ IF startedServer # NoServer
       THEN /\ servers' = Kill(startedServer)
            /\ sigkills' = IF HandleOpen(startedServer) THEN sigkills + 1 ELSE sigkills
       ELSE UNCHANGED <<servers, sigkills>>
    /\ notified' = "none"
    /\ lastExit' = NoExit
    /\ UNCHANGED <<serverStatus, startedServer, calls>>

(* ------------------------ execFlow / _rawExecFlow ---------------------- *)
\* execFlow up to its first await: the 'failed' fast path, or the first
\* iteration of the loop entering _rawExecFlow, which awaits
\* _getFlowExecOptions (isFlowInstalled).
\* (FastPathNever: execFlow without the check.)
FastPathNever(status) == FALSE

FastPath(status) == status = "failed"

ExecFlowBegin(c) ==
    /\ calls[c].pc = "idle"
    /\ calls' = [calls EXCEPT ![c] =
                   IF FastPath(serverStatus)
                   THEN [IdleCall EXCEPT !.pc = "done", !.outcome = "null"]
                   ELSE [IdleCall EXCEPT !.pc = "check", !.raws = 1]]
    /\ notified' = "none"
    /\ lastExit' = NoExit
    /\ UNCHANGED <<serverStatus, isStopped, startedServer, servers, sigkills, disposes>>

\* _rawExecFlow after `await this._getFlowExecOptions()`: null is returned (and
\* execFlow returns it) when flow is not installed; otherwise asyncExecute is
\* called and awaited.
\* (GetFlowExecOptionsThrows: _rawExecFlow throwing when flow is not installed.)
GetFlowExecOptionsThrows(c, installed) ==
    /\ calls[c].pc = "check"
    /\ calls' = [calls EXCEPT ![c] =
                   IF installed
                   THEN [@ EXCEPT !.pc = "exec"]
                   ELSE [@ EXCEPT !.pc = "thrown", !.code = 3]]
    /\ notified' = "none"
    /\ lastExit' = NoExit
    /\ UNCHANGED <<serverStatus, isStopped, startedServer, servers, sigkills, disposes>>

GetFlowExecOptions(c, installed) ==
    /\ calls[c].pc = "check"
    /\ calls' = [calls EXCEPT ![c] =
                   IF installed
                   THEN [@ EXCEPT !.pc = "exec"]
                   ELSE [IdleCall EXCEPT !.pc = "done", !.raws = calls[c].raws,
                                         !.outcome = "null"]]
    /\ notified' = "none"
    /\ lastExit' = NoExit
    /\ UNCHANGED <<serverStatus, isStopped, startedServer, servers, sigkills, disposes>>

\* _rawExecFlow after `await asyncExecute(...)`: the flow client ended with
\* exit code `code`, and asyncExecute returned the result or threw it.
\* _updateServerStatus runs in both branches; a returned result is returned
\* by execFlow, a thrown one reaches execFlow's catch at its next turn.
\* Which exit codes asyncExecute returns and which it throws is not fixed
\* here: every code may come either way.
\* (RawExecCompleteDropsResult: execFlow's try block without `return result`.)
RawExecCompleteDropsResult(c, code, threw) ==
    /\ calls[c].pc = "exec"
    /\ LET r == UpdateServerStatus(code)
       IN  /\ serverStatus' = r.value
           /\ notified' = r.delivered
           /\ StartFlowServer(r.start)
    /\ calls' = [calls EXCEPT ![c] =
                   IF threw
                   THEN [@ EXCEPT !.pc = "thrown", !.code = code]
                   ELSE IF calls[c].i < maxTries
                   THEN [@ EXCEPT !.pc = "check", !.i = @ + 1, !.raws = @ + 1, !.code = NoCode]
                   ELSE [IdleCall EXCEPT !.pc = "done", !.raws = calls[c].raws, !.code = code,
                                         !.outcome = "result"]]
    /\ lastExit' = NoExit
    /\ UNCHANGED <<isStopped, startedServer, sigkills, disposes>>

RawExecComplete(c, code, threw) ==
    /\ calls[c].pc = "exec"
    /\ LET r == UpdateServerStatus(code)
       IN  /\ serverStatus' = r.value
           /\ notified' = r.delivered
           /\ StartFlowServer(r.start)
    /\ calls' = [calls EXCEPT ![c] =
                   IF threw
                   THEN [@ EXCEPT !.pc = "thrown", !.code = code]
                   ELSE [IdleCall EXCEPT !.pc = "done", !.raws = calls[c].raws, !.code = code,
                                         !.outcome = "result"]]
    /\ lastExit' = NoExit
    /\ UNCHANGED <<isStopped, startedServer, sigkills, disposes>>

\* execFlow's catch block: retry (the next iteration enters _rawExecFlow) or
\* rethrow.
ShouldRetry(status) == status \in {"not running", "init", "busy"}

\* (ExecFlowCatchUnbounded: the catch block without `i < maxTries`, the loop
\* not counting.)
ExecFlowCatchUnbounded(c) ==
    /\ calls[c].pc = "thrown"
    /\ calls' = [calls EXCEPT ![c] =
                   IF ShouldRetry(serverStatus)
                   THEN [@ EXCEPT !.pc = "check", !.code = NoCode]
                   ELSE [IdleCall EXCEPT !.pc = "done", !.raws = calls[c].raws,
                                         !.code = calls[c].code, !.outcome = "error"]]
    /\ notified' = "none"
    /\ lastExit' = NoExit
    /\ UNCHANGED <<serverStatus, isStopped, startedServer, servers, sigkills, disposes>>

ExecFlowCatch(c) ==
    /\ calls[c].pc = "thrown"
    /\ calls' = [calls EXCEPT ![c] =
                   IF calls[c].i < maxTries /\ ShouldRetry(serverStatus)
                   THEN [@ EXCEPT !.pc = "check", !.i = @ + 1, !.raws = @ + 1, !.code = NoCode]
                   ELSE [IdleCall EXCEPT !.pc = "done", !.raws = calls[c].raws,
                                         !.code = calls[c].code, !.outcome = "error"]]
    /\ notified' = "none"
    /\ lastExit' = NoExit
    /\ UNCHANGED <<serverStatus, isStopped, startedServer, servers, sigkills, disposes>>

\* The caller has the outcome of its call (the promise execFlow returned is
\* settled); a later call may follow.
ExecFlowSettled(c) ==
    /\ calls[c].pc = "done"
    /\ calls' = [calls EXCEPT ![c] = IdleCall]
    /\ notified' = "none"
    /\ lastExit' = NoExit
    /\ UNCHANGED <<serverStatus, isStopped, startedServer, servers, sigkills, disposes>>

(* ----------------------------- specifications -------------------------- *)
\* new FlowProcess(root): the subject holds 'unknown'; the constructor's
\* observer is handed 'unknown', which its filter drops.
Init ==
    /\ serverStatus = "unknown"
    /\ isStopped = FALSE
    /\ notified = "none"
    /\ lastExit = NoExit
    /\ startedServer = NoServer
    /\ servers = [s \in Servers |-> "unborn"]
    /\ sigkills = 0
    /\ calls = [c \in Calls |-> IdleCall]
    /\ disposes = 0

\* Spec: the whole life of a supervisor (server starts, exits, crashes,
\* dispose) with the execFlow calls following one another, one in flight at
\* a time.
Serial == {1}

Next ==
    \/ \E c \in Serial : ExecFlowBegin(c)
    \/ \E c \in Serial, installed \in BOOLEAN : GetFlowExecOptions(c, installed)
    \/ \E c \in Serial, code \in ExitCodes, threw \in BOOLEAN : RawExecComplete(c, code, threw)
    \/ \E c \in Serial : ExecFlowCatch(c)
    \/ \E c \in Serial : ExecFlowSettled(c)
    \/ \E s \in Servers : SpawnResolve(s)
    \/ \E s \in Servers : ServerDies(s)
    \/ \E s \in Servers, exit \in ServerExits \cup {KilledExit} : ExitEvent(s, exit)
    \/ Dispose

Spec == Init /\ [][Next]_vars

\* SpecConcurrent: MaxCalls execFlow calls in flight together on a supervisor
\* that is not disposed and whose servers stay up.
NextConcurrent ==
    \/ \E c \in Calls : ExecFlowBegin(c)
    \/ \E c \in Calls, installed \in BOOLEAN : GetFlowExecOptions(c, installed)
    \/ \E c \in Calls, code \in ExitCodes, threw \in BOOLEAN : RawExecComplete(c, code, threw)
    \/ \E c \in Calls : ExecFlowCatch(c)
    \/ \E s \in Servers : SpawnResolve(s)

SpecConcurrent == Init /\ [][NextConcurrent]_vars

\* SpecFair: SpecConcurrent where what a call awaits completes: the
\* installation check and the flow client end, and the catch block runs.
Fairness ==
    \A c \in Calls :
        /\ WF_vars(\E installed \in BOOLEAN : GetFlowExecOptions(c, installed))
        /\ WF_vars(\E code \in ExitCodes, threw \in BOOLEAN : RawExecComplete(c, code, threw))
        /\ WF_vars(ExecFlowCatch(c))

SpecFair == Init /\ [][NextConcurrent]_vars /\ Fairness

TypeOK ==
    /\ serverStatus \in Statuses
    /\ isStopped \in BOOLEAN
    /\ notified \in Statuses \cup {"none"}
    /\ lastExit \in ServerExits \cup {KilledExit, NoExit}
    /\ startedServer \in Servers \cup {NoServer}
    /\ disposes \in 0..MaxDisposes
    /\ sigkills \in 0..MaxDisposes

(* ------------------------------- claims -------------------------------- *)
\* the step calls _startFlowServer
StartInvoked == \E s \in Servers : servers[s] = "unborn" /\ servers'[s] # "unborn"
\* the crash pattern of the exit handler: code 2 and no signal
CrashExit(exit) == exit[1] = 2 /\ exit[2] = "none"

\* C1: one execFlow call makes at most 5 raw invocations (_rawExecFlow
\* calls), whatever retryable failures they produce.
C1_AtMostFiveRawInvocations == \A c \in Calls : calls[c].raws <= 5

\* C2: a raw invocation that finds flow not installed returns null and
\* leaves the status 'not installed' (the subject still being open).
C2_NotInstalledSetsStatus ==
    \A c \in Calls :
        (calls[c].pc = "done" /\ calls[c].outcome = "null" /\ calls[c].raws > 0 /\ ~isStopped)
            => serverStatus = "not installed"

\* C3: the supervisor never has two server subprocesses of its own at a
\* time (in flight in safeSpawn, or running).
C3_AtMostOneServerProcess ==
    Cardinality({s \in Servers : servers[s] \in {"spawning", "running"}}) <= 1

\* C4: while the subject is open (neither disposed nor failed), a raw
\* invocation completing with exit code c, returned or thrown, leaves the
\* status at the table's value for c.
TableStatus(code) ==
    IF code \in {0, 2} THEN "ready"
    ELSE IF code = 1 THEN "init"
    ELSE IF code = 6 THEN "not running"
    ELSE IF code = 7 THEN "busy"
    ELSE IF code = 9 THEN "not running"
    ELSE "unknown"

C4_ExitCodeTable ==
    [][\A c \in Calls :
          (calls[c].pc = "exec" /\ calls'[c].pc # "exec" /\ ~isStopped)
              => serverStatus' = TableStatus(calls'[c].code)]_vars

C4_Witness ==
    \E c \in Calls :
        /\ calls[c].pc = "thrown" /\ calls[c].code = buildIdMismatch
        /\ serverStatus = "not running" /\ ~isStopped

\* C5 as stated: when the exit handler has run for a crash exit (code 2, no
\* signal), the status is 'failed'.
C5_CrashAlwaysFails == CrashExit(lastExit) => serverStatus = "failed"

\* C5 amended: the exit handler of a crash exit completes the subject, and
\* sets the status to 'failed' unless dispose() had been called before;
\* 'failed' is absorbing: from then on the status stays 'failed', nothing is
\* delivered to an observer and _startFlowServer is not called.
C5_CrashFailsUnlessDisposed ==
    [][/\ CrashExit(lastExit')
             => /\ isStopped'
                /\ disposes = 0 => serverStatus' = "failed"
                /\ ~isStopped => notified' = "failed"
       /\ serverStatus = "failed"
             => (serverStatus' = "failed" /\ notified' = "none" /\ ~StartInvoked)]_vars

\* the crash handler has just delivered 'failed', a raw invocation being in flight
C5_Witness ==
    /\ CrashExit(lastExit) /\ disposes = 0
    /\ serverStatus = "failed" /\ notified = "failed" /\ isStopped
    /\ \E c \in Calls : calls[c].pc = "exec"

\* C6: an execFlow call that begins while the status is 'failed' returns
\* null at once: no raw invocation, no process, no status change.
C6_FailedFastPath ==
    [][\A c \in Calls :
          (calls[c].pc = "idle" /\ calls'[c].pc # "idle" /\ serverStatus = "failed")
              => /\ calls'[c].pc = "done" /\ calls'[c].outcome = "null" /\ calls'[c].raws = 0
                 /\ notified' = "none"
                 /\ UNCHANGED <<serverStatus, isStopped, startedServer, servers, sigkills>>]_vars

C6_Witness ==
    \E c \in Calls :
        /\ calls[c].pc = "done" /\ calls[c].outcome = "null" /\ calls[c].raws = 0
        /\ serverStatus = "failed"

\* C7: over any sequence of operations with one or more dispose() calls, the
\* owned server subprocess is not sent SIGKILL more than once.
C7_KilledAtMostOnce == sigkills <= 1

\* C8: _startedServer is set only while its process has neither exited
\* (its exit event handled) nor been killed by dispose().
C8_HandleOnlyWhileAlive ==
    startedServer # NoServer
        => \/ servers[startedServer] = "running"
           \/ servers[startedServer] = "exited" /\ sigkills = 0

\* C9: after dispose(), the status value never changes, no value is
\* delivered to an observer and _startFlowServer is never called, whatever
\* completes afterwards.
C9_DisposedIsInert ==
    [][disposes > 0
          => (serverStatus' = serverStatus /\ notified' = "none" /\ ~StartInvoked)]_vars

\* a raw invocation has ended with 'no server running' on a disposed
\* supervisor, whose status is still another one
C9_Witness ==
    /\ disposes > 0
    /\ serverStatus \notin {"not running", "failed"}
    /\ \E c \in Calls : calls[c].pc = "thrown" /\ calls[c].code = noServerRunning

\* C10: with several calls in flight, a call retries after a failed raw
\* invocation exactly when attempts remain and the status its own exit code
\* maps to is one of 'not running', 'init', 'busy'.
C10_RetryOnOwnStatus ==
    [][\A c \in Calls :
          (calls[c].pc = "thrown" /\ calls'[c].pc # "thrown")
              => ((calls'[c].pc = "check")
                     <=> (calls[c].i < maxTries /\ ShouldRetry(Classify(calls[c].code))))]_vars

\* C11: a call whose first raw invocation fails with an exit code whose
\* status is none of 'not running', 'init', 'busy' raises that error after
\* this one raw invocation, without a retry.
C11_NonRetryableFirstFailureRaises ==
    [][\A c \in Calls :
          (/\ calls[c].pc = "thrown" /\ calls[c].i = 0
           /\ Classify(calls[c].code) \notin {"not running", "init", "busy"}
           /\ calls'[c].pc # "thrown")
              => /\ calls'[c].pc = "done" /\ calls'[c].outcome = "error"
                 /\ calls'[c].code = calls[c].code /\ calls'[c].raws = 1]_vars

\* C12: for k in 1..5, a call whose k-th raw invocation succeeds (the k-1
\* before it having failed) returns that invocation's result and makes no
\* further raw invocation: it stays done, with k raw invocations, until its
\* caller has the result.
C12_SuccessReturnsAtOnce ==
    [][\A c \in Calls :
          /\ (calls[c].pc = "exec" /\ calls[c].raws \in 1..5 /\ calls'[c].pc \notin {"exec", "thrown"})
                => /\ calls'[c].pc = "done" /\ calls'[c].outcome = "result"
                   /\ calls'[c].raws = calls[c].raws
                   /\ serverStatus' = (IF isStopped THEN serverStatus ELSE TableStatus(calls'[c].code))
          /\ (calls[c].pc = "done" /\ calls[c].outcome = "result")
                => (calls'[c] = calls[c] \/ calls'[c].pc = "idle")]_vars

\* the 5th raw invocation of a call has succeeded
C12_Witness ==
    \E c \in Calls : calls[c].pc = "done" /\ calls[c].outcome = "result" /\ calls[c].raws = 5

\* C11 with the calls following one another, on an open subject: the status
\* read by the catch block is then the one of the call's own failure.
C11_SerialFirstFailureRaises ==
    [][\A c \in Calls :
          (/\ calls[c].pc = "thrown" /\ calls[c].i = 0 /\ ~isStopped
           /\ Classify(calls[c].code) \notin {"not running", "init", "busy"}
           /\ calls'[c].pc # "thrown")
              => /\ calls'[c].pc = "done" /\ calls'[c].outcome = "error"
                 /\ calls'[c].code = calls[c].code /\ calls'[c].raws = 1]_vars

\* the step ends the raw invocation of call c (asyncExecute has settled)
RawEnds(c) == calls[c].pc = "exec" /\ calls'[c].pc # "exec"

\* C13: a raw invocation ending with the build-id mismatch code (9) on an
\* open subject is followed by a call of _startFlowServer, whatever the
\* status was before.
C13_MismatchRestarts ==
    [][\A c \in Calls :
          (RawEnds(c) /\ calls'[c].code = 9 /\ ~isStopped) => StartInvoked]_vars

\* C14: when every server started so far has ended and a raw invocation
\* reports 'no server running' (6) on an open subject, _startFlowServer is
\* called.
C14_DeathRestarts ==
    [][\A c \in Calls :
          (/\ RawEnds(c) /\ calls'[c].code = 6 /\ ~isStopped
           /\ \E s \in Servers : servers[s] # "unborn"
           /\ \A s \in Servers : servers[s] \notin {"spawning", "running"})
              => StartInvoked]_vars

\* C15: a value delivered to the observers differs from the value delivered
\* before it (the value the subject held).
C15_OnlyChangesDelivered ==
    [][notified' # "none" => (notified' # serverStatus /\ notified' = serverStatus')]_vars

\* a raw invocation has ended with a code whose status was already the
\* current one, and a value has been delivered before
C15_Witness ==
    /\ ~isStopped /\ notified = "none" /\ serverStatus = "busy"
    /\ \E c \in Calls : calls[c].pc = "thrown" /\ calls[c].code = 7 /\ calls[c].i > 0

\* C16: with what a call awaits completing, every call that has begun ends,
\* with a result, null or an error.
C16_CallsTerminate ==
    \A c \in Calls :
        (calls[c].pc # "idle")
            ~> (calls[c].pc = "done" /\ calls[c].outcome \in {"result", "null", "error"})

\* both calls have ended, one of them after six raw invocations
C16_Witness ==
    /\ \A c \in Calls : calls[c].pc = "done"
    /\ \E c \in Calls : calls[c].outcome = "error" /\ calls[c].raws = 6

\* C17: a call whose installation check finds flow missing returns null: no
\* error, no process, no status change, no retry (one check when flow is
\* missing from the start).
C17_NotInstalledReturnsNull ==
    [][\A c \in Calls :
          (calls[c].pc = "check" /\ calls'[c].pc \notin {"check", "exec"})
              => /\ calls'[c].pc = "done" /\ calls'[c].outcome = "null"
                 /\ calls'[c].raws = calls[c].raws
                 /\ calls[c].i = 0 => calls'[c].raws = 1
                 /\ notified' = "none"
                 /\ UNCHANGED <<serverStatus, isStopped, startedServer, servers, sigkills>>]_vars

C17_Witness ==
    /\ serverStatus = "busy" /\ ~isStopped
    /\ \E c \in Calls : calls[c].pc = "done" /\ calls[c].outcome = "null" /\ calls[c].raws = 1

\* C18: no server is started at construction, and a step calls
\* _startFlowServer exactly when it delivers 'not running', and then once.
C18_StartOnlyOnNotRunning ==
    /\ \A s \in Servers : servers[s] = "unborn"
    /\ [][/\ StartInvoked <=> notified' = "not running"
          /\ Cardinality({s \in Servers : servers[s] = "unborn" /\ servers'[s] # "unborn"}) <= 1]_vars

\* 'not running' has just been delivered for the second time
C18_Witness ==
    /\ notified = "not running"
    /\ \A s \in Servers : servers[s] # "unborn"

\* C19: once dispose() has been called, no server process of the supervisor
\* is alive with its spawn resolved.
C19_NoServerOutlivesDispose ==
    disposes > 0 => \A s \in Servers : servers[s] # "running"

\* C20: the exit handler called with anything but the crash pattern leaves
\* the status and the subject's state alone, delivers nothing and starts no
\* server.
C20_BenignExitChangesNothing ==
    [][(lastExit' # NoExit /\ ~(lastExit'[1] = 2 /\ lastExit'[2] = "none"))
          => /\ UNCHANGED <<serverStatus, isStopped, startedServer>>
             /\ notified' = "none"
             /\ ~StartInvoked]_vars

C20_Witness ==
    /\ lastExit \in {<<1, "none">>, <<NoCode, "SIGTERM">>}
    /\ ~isStopped /\ serverStatus = "not running"
====
